---------------------------- MODULE Spec2Model ----------------------------
(***************************************************************************)
(* The flexbox main-axis resolver of package flex: flexClass.Layout of     *)
(* src/flex/flex.go (the second, complete copy of the file, lines 343-768).*)
(*                                                                         *)
(* One Layout call is a sequential run: pc walks through the stages of     *)
(* the function (collect children, collect lines, freeze inflexible        *)
(* children, flex loop, set main size).  The inputs of the call (wrap      *)
(* mode, container extent, the children with their measured size and       *)
(* LayoutData) are drawn by Init and never change.                         *)
(*                                                                         *)
(* All lengths are main-axis lengths: measured is k.mainSize(MeasuredSize),*)
(* container is k.mainSize(n.Rect.Size()), and rect[i] is the pair         *)
(* <<Min, Max>> of child i's Rect on the main axis.                        *)
(*                                                                         *)
(* float64 values are modelled as exact rationals [n, d] in lowest terms,  *)
(* with d = 0 standing for NaN (the result of 0/0).                        *)
(***************************************************************************)
EXTENDS Integers, Sequences, FiniteSets, TLC

VARIABLES
    wrap,           \* k.flex.Wrap
    container,      \* k.mainSize(n.Rect.Size())
    kids,           \* the child nodes: measured size and LayoutData
    rect,           \* rect[i]: main-axis <<Min, Max>> of child i's Rect
    written,        \* the children whose Rect this call has assigned
    pc,             \* position inside Layout
    children,       \* []element
    lines,          \* []flexLine
    line,           \* the flexLine being collected (Wrap, WrapReverse)
    i,              \* index of the next child to collect
    lineNum,        \* index of the line being resolved
    grow,           \* growing mode of the current line
    initFreeSpace,  \* initial free space of the current line
    iters           \* iterations of the flex loop made on the current line

vars == <<wrap, container, kids, rect, written, pc, children, lines, line, i,
          lineNum, grow, initFreeSpace, iters>>

\* ------------------------------------------------------------------ bounds
MaxChildren == 2
MaxContainer == 3
MaxIters == 3

\* ------------------------------------------------------- program constants
NoWrap == 0
Wrap == 1
WrapReverse == 2

Auto == 0
Content == 1
Definite == 2

\* ----------------------------------------------------- float64 arithmetic
RECURSIVE GCD(_, _)
GCD(a, b) == IF b = 0 THEN a ELSE GCD(b, a % b)

AbsInt(a) == IF a < 0 THEN -a ELSE a

NaN == [n |-> 0, d |-> 0]

IsNaN(x) == x.d = 0

Rat(a, b) ==
    IF b = 0 THEN NaN
    ELSE LET s == IF b < 0 THEN -1 ELSE 1
             g == GCD(AbsInt(a), AbsInt(b))
         IN  [n |-> (s * a) \div g, d |-> (s * b) \div g]

R(a) == [n |-> a, d |-> 1]

Zero == R(0)
One == R(1)
Half == Rat(1, 2)

Add(x, y) == IF IsNaN(x) \/ IsNaN(y) THEN NaN
             ELSE Rat(x.n * y.d + y.n * x.d, x.d * y.d)

Sub(x, y) == IF IsNaN(x) \/ IsNaN(y) THEN NaN
             ELSE Rat(x.n * y.d - y.n * x.d, x.d * y.d)

Mul(x, y) == IF IsNaN(x) \/ IsNaN(y) THEN NaN
             ELSE Rat(x.n * y.n, x.d * y.d)

\* x / y.  A zero divisor is only ever met as 0/0 (the operands are
\* non-negative and a zero sum has zero terms), which is NaN.
Div(x, y) == IF IsNaN(x) \/ IsNaN(y) THEN NaN
             ELSE Rat(x.n * y.d, x.d * y.n)

\* Comparisons with NaN are false.
Lt(x, y) == ~IsNaN(x) /\ ~IsNaN(y) /\ x.n * y.d < y.n * x.d
Gt(x, y) == Lt(y, x)
Eq(x, y) == ~IsNaN(x) /\ ~IsNaN(y) /\ x = y

Abs(x) == IF IsNaN(x) THEN NaN ELSE [n |-> AbsInt(x.n), d |-> x.d]

\* int(x): truncation toward zero.
ToInt(x) == IF x.n >= 0 THEN x.n \div x.d ELSE -((-x.n) \div x.d)

RECURSIVE SumSeq(_)
SumSeq(s) == IF s = <<>> THEN Zero
             ELSE Add(SumSeq(SubSeq(s, 1, Len(s) - 1)), s[Len(s)])


\* ------------------------------------------------------------ child nodes
\* LayoutData{} of a child; hasData is the outcome of the type assertion
\* n.LayoutData.(LayoutData).  ShrinkNil stands for Shrink == nil.
Kid(m, has, g, snil, s, b, px, brk) ==
    [measured |-> m, hasData |-> has, Grow |-> g, ShrinkNil |-> snil,
     Shrink |-> s, Basis |-> b, BasisPx |-> px, BreakAfter |-> brk]

\* A child without LayoutData.
Plain(m) == Kid(m, FALSE, Zero, TRUE, Zero, Auto, 0, FALSE)

basisOf(k) == IF k.hasData THEN k.Basis ELSE Auto

\* Content handled like Auto instead of panicking.
flexBaseSizePanics_Mut(k) == basisOf(k) \notin {Auto, Content, Definite}

\* flexBaseSize panics on Content and on an unknown basis.
flexBaseSizePanics(k) == basisOf(k) = Content \/ basisOf(k) \notin {Auto, Content, Definite}

flexBaseSize(k) == IF basisOf(k) = Definite THEN k.BasisPx ELSE k.measured

\* A child without LayoutData given the grow factor 1.
growFactor_Mut(k) == IF k.hasData THEN k.Grow ELSE One

growFactor(k) == IF k.hasData THEN k.Grow ELSE Zero

shrinkFactor(k) == IF k.hasData /\ ~k.ShrinkNil THEN k.Shrink ELSE One

breakAfter(k) == k.hasData /\ k.BreakAfter

\* ------------------------------------------------------ elements and lines
NewElement(k) ==
    [flexBaseSize |-> flexBaseSize(k), frozen |-> FALSE,
     unclamped |-> Zero, mainSize |-> Zero]

EmptyLine == [mainSize |-> 0, child |-> <<>>]

Reverse(s) == [j \in 1..Len(s) |-> s[Len(s) + 1 - j]]

Range(s) == {s[j] : j \in DOMAIN s}

\* The line being resolved, and the indices of its children.
CurLine == lines[lineNum]

\* §9.7.1
growMode(ln) == ln.mainSize < container

\* §9.7.2: whether child k is frozen at its measured size.
freezeInflexible(k, g) ==
    IF g THEN Eq(growFactor(k), Zero) \/ flexBaseSize(k) > k.measured
         ELSE Eq(shrinkFactor(k), Zero) \/ flexBaseSize(k) < k.measured

\* container minus frozen main sizes and unfrozen flex base sizes
freeSpace(ch, idx) ==
    Sub(R(container),
        SumSeq([p \in 1..Len(idx) |->
                  IF ch[idx[p]].frozen THEN ch[idx[p]].mainSize
                  ELSE R(flexBaseSize(kids[idx[p]]))]))

unfrozenFlexFactor(ch, idx, g) ==
    SumSeq([p \in 1..Len(idx) |->
              IF ch[idx[p]].frozen THEN Zero
              ELSE IF g THEN growFactor(kids[idx[p]])
                        ELSE shrinkFactor(kids[idx[p]])])

\* remFreeSpace after the adjustment for a factor sum below 1
remFreeSpace(ch, idx, g, init) ==
    LET rem == freeSpace(ch, idx)
        f   == unfrozenFlexFactor(ch, idx, g)
        p   == Mul(init, f)
    IN  IF Lt(f, One) /\ Lt(Abs(p), Abs(rem)) THEN p ELSE rem

scaledShrinkFactor(k) == Mul(R(flexBaseSize(k)), shrinkFactor(k))

sumScaledShrinkFactor(ch, idx) ==
    SumSeq([p \in 1..Len(idx) |->
              IF ch[idx[p]].frozen THEN Zero
              ELSE scaledShrinkFactor(kids[idx[p]])])

\* The new main size of unfrozen child j of the line.
growSize(k, f, rem) ==
    Add(R(flexBaseSize(k)), Mul(Div(growFactor(k), f), rem))

shrinkSize(k, sum, rem) ==
    Sub(R(flexBaseSize(k)), Mul(Div(scaledShrinkFactor(k), sum), rem))

\* Distribute free space proportional to flex factors.
distribute(ch, idx, g, init) ==
    LET rem == remFreeSpace(ch, idx, g, init)
        f   == unfrozenFlexFactor(ch, idx, g)
        sum == sumScaledShrinkFactor(ch, idx)
    IN  [j \in DOMAIN ch |->
           IF j \notin Range(idx) \/ ch[j].frozen \/ rem = Zero THEN ch[j]
           ELSE [ch[j] EXCEPT !.mainSize =
                    IF g THEN growSize(kids[j], f, rem)
                         ELSE shrinkSize(kids[j], sum, rem)]]

\* The zero lower bound left out.
clamp_Mut(x) == x

clamp(x) == IF Lt(x, Zero) THEN Zero ELSE x

\* Fix min/max violations.
fixMinMax(ch, idx) ==
    [j \in DOMAIN ch |->
       IF j \notin Range(idx) \/ ch[j].frozen THEN ch[j]
       ELSE [ch[j] EXCEPT !.unclamped = ch[j].mainSize,
                          !.mainSize = clamp(ch[j].mainSize)]]

sumClampDiff(ch, idx) ==
    SumSeq([p \in 1..Len(idx) |-> Sub(ch[idx[p]].mainSize, ch[idx[p]].unclamped)])

\* Freeze over-flexed items.
freezeOverFlexed(ch, idx) ==
    LET d == sumClampDiff(ch, idx)
    IN  [j \in DOMAIN ch |->
           IF j \notin Range(idx) THEN ch[j]
           ELSE IF Eq(d, Zero) THEN [ch[j] EXCEPT !.frozen = TRUE]
           ELSE IF Gt(d, Zero) /\ Gt(ch[j].mainSize, ch[j].unclamped)
                THEN [ch[j] EXCEPT !.frozen = TRUE]
           ELSE IF Lt(d, Zero) /\ Lt(ch[j].mainSize, ch[j].unclamped)
                THEN [ch[j] EXCEPT !.frozen = TRUE]
           ELSE ch[j]]

allFrozen(ch, idx) == \A p \in 1..Len(idx) : ch[idx[p]].frozen

\* Offset of the p-th child of a line: the sum of int(mainSize) before it.
RECURSIVE offset(_, _, _)
offset(ch, idx, p) ==
    IF p = 1 THEN 0 ELSE offset(ch, idx, p - 1) + ToInt(ch[idx[p - 1]].mainSize)

\* ------------------------------------------------------------------ inputs
\* The children a call is made with.  grow is only read in growing mode and
\* shrink only in shrinking mode, so a child sets at most one of them.
Sizes == {0, 1, 2}
UnknownBasis == 3

Flexes == {<<Half, TRUE, Zero>>, <<One, TRUE, Zero>>, <<Zero, FALSE, Zero>>}

PlainKids == {Plain(m) : m \in Sizes}

FlexKids == {Kid(m, TRUE, f[1], f[2], f[3], Auto, 0, FALSE) : m \in Sizes, f \in Flexes}

BreakKids == {Kid(m, TRUE, g, TRUE, Zero, Auto, 0, TRUE) : m \in Sizes, g \in {Zero, One}}

DefiniteKids ==
    {Kid(mp[1], TRUE, f[1], f[2], f[3], Definite, mp[2], brk) :
        mp \in {<<0, 2>>, <<2, 0>>},
        f \in {<<Zero, TRUE, Zero>>, <<One, TRUE, Zero>>, <<Zero, FALSE, Zero>>},
        brk \in BOOLEAN}

BadKids == {Kid(1, TRUE, Zero, TRUE, Zero, b, 0, FALSE) : b \in {Content, UnknownBasis}}

Kids == PlainKids \cup FlexKids \cup BreakKids \cup DefiniteKids \cup BadKids

SeqsUpTo(S, n) == UNION {[1..m -> S] : m \in 0..n}

Start(w, c, ks) ==
    /\ wrap = w
    /\ container = c
    /\ kids = ks
    /\ rect = [j \in DOMAIN ks |-> <<0, 0>>]
    /\ written = {}
    /\ pc = "start"
    /\ children = <<>>
    /\ lines = <<>>
    /\ line = EmptyLine
    /\ i = 1
    /\ lineNum = 1
    /\ grow = FALSE
    /\ initFreeSpace = Zero
    /\ iters = 0

Init ==
    \E w \in {NoWrap, Wrap, WrapReverse}, c \in 0..MaxContainer,
       ks \in SeqsUpTo(Kids, MaxChildren) :
        Start(w, c, ks)

\* ----------------------------------------------------------------- actions
\* Collect the children and their flex base sizes (flex.go 466-474).
CollectChildren ==
    /\ pc = "start"
    /\ IF \E j \in DOMAIN kids : flexBaseSizePanics(kids[j])
       THEN /\ pc' = "panic"
            /\ UNCHANGED children
       ELSE /\ pc' = "collect"
            /\ children' = [j \in DOMAIN kids |-> NewElement(kids[j])]
    /\ UNCHANGED <<wrap, container, kids, rect, written, lines, line, i, lineNum,
                   grow, initFreeSpace, iters>>

\* The overflow test of the wrapping walk (flex.go 489).
overflows(ln, el) == ln.mainSize > 0 /\ ln.mainSize + el.flexBaseSize > container

\* BreakAfter honoured only once the line is full.
breaksLine_Mut(ln, k) == breakAfter(k) /\ ln.mainSize >= container

\* Whether the line ln is closed right after child k joined it (flex.go 496).
breaksLine(ln, k) == breakAfter(k)

\* §9.3.5 collect children into flex lines (flex.go 477-507).  NoWrap builds
\* its single line at once; Wrap and WrapReverse take one child per step and
\* a last step that reverses the lines for WrapReverse.
CollectLines ==
    /\ pc = "collect"
    /\ IF wrap = NoWrap
       THEN /\ lines' = <<[mainSize |-> 0, child |-> [j \in DOMAIN children |-> j]]>>
            /\ pc' = "freeze"
            /\ UNCHANGED <<line, i>>
       ELSE IF i <= Len(children)
       THEN LET over   == overflows(line, children[i])
                lines1 == IF over THEN Append(lines, line) ELSE lines
                line1  == IF over THEN EmptyLine ELSE line
                line2  == [mainSize |-> line1.mainSize + children[i].flexBaseSize,
                           child |-> Append(line1.child, i)]
                brk    == breaksLine(line2, kids[i])
            IN  /\ lines' = IF brk THEN Append(lines1, line2) ELSE lines1
                /\ line' = IF brk THEN EmptyLine ELSE line2
                /\ i' = i + 1
                /\ pc' = "collect"
       ELSE /\ lines' = IF wrap = WrapReverse THEN Reverse(lines) ELSE lines
            /\ pc' = IF lines = <<>> THEN "done" ELSE "freeze"
            /\ UNCHANGED <<line, i>>
    /\ UNCHANGED <<wrap, container, kids, rect, written, children, lineNum, grow,
                   initFreeSpace, iters>>

\* §9.7.1-§9.7.3 for the line lineNum (flex.go 510-538).
FreezeInflexible ==
    /\ pc = "freeze"
    /\ LET idx == CurLine.child
           g   == growMode(CurLine)
           ch  == [j \in DOMAIN children |->
                     IF j \in Range(idx) /\ freezeInflexible(kids[j], g)
                     THEN [children[j] EXCEPT !.frozen = TRUE,
                                              !.mainSize = R(kids[j].measured)]
                     ELSE children[j]]
       IN  /\ grow' = g
           /\ children' = ch
           /\ initFreeSpace' = freeSpace(ch, idx)
    /\ iters' = 0
    /\ pc' = "loop"
    /\ UNCHANGED <<wrap, container, kids, rect, written, lines, line, i, lineNum>>

\* §9.7.4: one iteration of the flex loop (flex.go 541-648).  iters counts
\* the iterations made on the line and stops counting at MaxIters.
FlexLoop ==
    /\ pc = "loop"
    /\ IF allFrozen(children, CurLine.child)
       THEN /\ pc' = "setsize"
            /\ UNCHANGED <<children, iters>>
       ELSE /\ children' = freezeOverFlexed(
                              fixMinMax(
                                distribute(children, CurLine.child, grow, initFreeSpace),
                                CurLine.child),
                              CurLine.child)
            /\ iters' = IF iters < MaxIters THEN iters + 1 ELSE iters
            /\ pc' = "loop"
    /\ UNCHANGED <<wrap, container, kids, rect, written, lines, line, i, lineNum,
                   grow, initFreeSpace>>

\* §9.7.5 set main size (flex.go 650-665), then on to the next line.
SetMainSize ==
    /\ pc = "setsize"
    /\ LET idx == CurLine.child
       IN  rect' = [j \in DOMAIN rect |->
                      IF \E p \in 1..Len(idx) : idx[p] = j
                      THEN LET p == CHOOSE q \in 1..Len(idx) : idx[q] = j
                               off == offset(children, idx, p)
                           IN  <<off, off + ToInt(children[j].mainSize)>>
                      ELSE rect[j]]
           /\ written' = written \cup Range(idx)
    /\ IF lineNum < Len(lines)
       THEN pc' = "freeze" /\ lineNum' = lineNum + 1
       ELSE pc' = "done" /\ UNCHANGED lineNum
    /\ UNCHANGED <<wrap, container, kids, children, lines, line, i, grow,
                   initFreeSpace, iters>>

Next == CollectChildren \/ CollectLines \/ FreezeInflexible \/ FlexLoop \/ SetMainSize

Spec == Init /\ [][Next]_vars


\* ------------------------------------------------------------------ claims
\* Sum of the measured sizes of the first p children.
RECURSIVE MeasuredUpTo(_)
MeasuredUpTo(p) == IF p = 0 THEN 0 ELSE MeasuredUpTo(p - 1) + kids[p].measured

NoFlex == \A j \in DOMAIN kids : ~kids[j].hasData

\* Every child's Rect spans its measured size, the first from offset 0 and
\* each next one from where the previous one ends.
MeasuredEndToEnd ==
    \A j \in DOMAIN kids : rect[j] = <<MeasuredUpTo(j - 1), MeasuredUpTo(j)>>

HasBadBasis ==
    \E j \in DOMAIN kids : kids[j].hasData /\ kids[j].Basis \notin {Auto, Definite}

\* C8: with a child of basis Content or of an unknown basis, the call aborts
\* while the flex base sizes are computed: it never gets past that stage,
\* and no child's Rect is assigned.
C8_ConfigurationError ==
    HasBadBasis =>
        /\ pc \in {"start", "panic"}
        /\ written = {}
        /\ rect = [j \in DOMAIN kids |-> <<0, 0>>]
        /\ children = <<>>

\* The call aborted on a second child of basis Content, after a first child
\* that could have been laid out.
C8_Witness ==
    /\ pc = "panic"
    /\ Len(kids) = 2
    /\ ~flexBaseSizePanics(kids[1]) /\ kids[1].measured > 0
    /\ kids[2].hasData /\ kids[2].Basis = Content

Wrapping == wrap \in {Wrap, WrapReverse}

ForcesBreak(j) == kids[j].hasData /\ kids[j].BreakAfter

\* C6: under Wrap or WrapReverse no emitted line is empty, a child with
\* BreakAfter is the last child of its line, the child after it is never in
\* the same line, and the line still being collected holds no such child.
C6_ForcedBreak ==
    Wrapping =>
        /\ \A l \in DOMAIN lines :
              /\ lines[l].child # <<>>
              /\ \A p \in DOMAIN lines[l].child :
                    ForcesBreak(lines[l].child[p])
                        => /\ p = Len(lines[l].child)
                           /\ (lines[l].child[p] + 1) \notin Range(lines[l].child)
        /\ \A p \in DOMAIN line.child : ~ForcesBreak(line.child[p])

\* Two consecutive children that both set BreakAfter, each alone in its
\* line although the container has room for both.
C6_Witness ==
    /\ Wrapping /\ pc = "done"
    /\ Len(kids) = 2 /\ ForcesBreak(1) /\ ForcesBreak(2)
    /\ children[1].flexBaseSize > 0 /\ children[2].flexBaseSize > 0
    /\ children[1].flexBaseSize + children[2].flexBaseSize < container
    /\ Len(lines) = 2
    /\ written = {1, 2}

NonNegative(x) == ~IsNaN(x) /\ x.n >= 0

\* C7: a frozen child's main size is never negative, so whenever Layout has
\* finished a line every child of it has a main size >= 0; every Rect ends
\* at or after its start, and along a line the offsets never decrease.
C7_NonNegative ==
    /\ \A j \in DOMAIN children :
          children[j].frozen => NonNegative(children[j].mainSize)
    /\ \A j \in DOMAIN rect : rect[j][1] >= 0 /\ rect[j][2] >= rect[j][1]
    /\ \A l \in DOMAIN lines :
          \A p, q \in DOMAIN lines[l].child :
              (p < q /\ lines[l].child[q] \in written)
                  => rect[lines[l].child[p]][2] <= rect[lines[l].child[q]][1]

\* A child whose distributed size was negative was laid out with size 0.
C7_Witness ==
    /\ pc = "done"
    /\ \E j \in written :
          /\ Lt(children[j].unclamped, Zero)
          /\ children[j].mainSize = Zero
          /\ rect[j][2] = rect[j][1]

\* Sum of the grow factors of the first p children.
RECURSIVE GrowUpTo(_)
GrowUpTo(p) == IF p = 0 THEN Zero ELSE Add(GrowUpTo(p - 1), growFactor(kids[p]))

\* The size C1 gives child j: measured plus its share of the free space.
C1_Size(j) ==
    Add(R(kids[j].measured),
        Mul(Div(growFactor(kids[j]), GrowUpTo(Len(kids))),
            R(container - MeasuredUpTo(Len(kids)))))

RECURSIVE C1_Offset(_)
C1_Offset(j) == IF j = 0 THEN 0 ELSE C1_Offset(j - 1) + ToInt(C1_Size(j))

C1_Pre ==
    /\ wrap = NoWrap
    /\ Len(kids) >= 1
    /\ \A j \in DOMAIN kids : basisOf(kids[j]) = Auto
    /\ container > MeasuredUpTo(Len(kids))
    /\ ~Lt(GrowUpTo(Len(kids)), One)

C1_Returned ==
    /\ pc = "done"
    /\ \A j \in DOMAIN kids :
          /\ children[j].mainSize = C1_Size(j)
          /\ rect[j] = <<C1_Offset(j - 1), C1_Offset(j)>>

\* C1: under NoWrap with Auto basis, free space to hand out and grow factors
\* that sum to at least 1, Layout returns (the flex loop makes no more
\* passes than the line has children) with every child at its measured size
\* plus its share of the free space, end-to-end from offset 0.
C1_GrowthDistribution ==
    C1_Pre => /\ iters <= Len(kids)
              /\ pc = "done" => C1_Returned

Unfrozen == {j \in Range(CurLine.child) : ~children[j].frozen}

\* C2: an iteration of the flex loop that does not exit freezes at least one
\* child that was unfrozen.
C2_LoopProgress ==
    [][(pc = "loop" /\ pc' = "loop") => Cardinality(Unfrozen') < Cardinality(Unfrozen)]_vars

\* Sum of the flex base sizes of the children of a line.
LineBase(ln) == SumSeq([p \in DOMAIN ln.child |-> R(children[ln.child[p]].flexBaseSize)])

\* Sum of the final main sizes of the children of a line.
LineTotal(ln) == SumSeq([p \in DOMAIN ln.child |-> children[ln.child[p]].mainSize])

\* C4: once a line is resolved the sum of its main sizes exceeds the
\* container by at most one unit per child, and it equals the container when
\* every child of the line is flexible (a positive grow factor, and not held
\* at its measured size by a larger flex base size) and the free space is
\* positive.
C4_Conservation ==
    pc = "setsize" =>
        /\ ~Gt(LineTotal(CurLine), R(container + Len(CurLine.child)))
        /\ ( /\ CurLine.child # <<>>
             /\ Lt(LineBase(CurLine), R(container))
             /\ \A j \in Range(CurLine.child) :
                   /\ Gt(growFactor(kids[j]), Zero)
                   /\ children[j].flexBaseSize <= kids[j].measured )
              => LineTotal(CurLine) = R(container)

\* C5: under Wrap or WrapReverse, when Layout returns every child is in
\* exactly one line, the children of a line are consecutive, and every
\* child's Rect has been assigned.
C5_PartitionComplete ==
    (Wrapping /\ pc = "done") =>
        /\ \A j \in DOMAIN kids :
              Cardinality({lp \in {<<l, p>> : l \in DOMAIN lines, p \in 1..MaxChildren + 1} :
                             lp[2] \in DOMAIN lines[lp[1]].child
                             /\ lines[lp[1]].child[lp[2]] = j}) = 1
        /\ \A l \in DOMAIN lines :
              \A p \in DOMAIN lines[l].child :
                  p > 1 => lines[l].child[p] = lines[l].child[p - 1] + 1
        /\ written = DOMAIN kids

\* C9: in every wrap mode a line is resolved in growing mode exactly when
\* the sum of the flex base sizes of its children is below the container.
C9_ModeDetermination ==
    pc \in {"loop", "setsize"} => (grow <=> Lt(LineBase(CurLine), R(container)))

\* C10: while walking the children, the current line is closed before the
\* next child exactly when it holds at least one child and its running
\* total plus the next child's flex base size exceeds the container.
C10_OverflowRule ==
    [][(pc = "collect" /\ Wrapping /\ i <= Len(children)) =>
          ( (Len(lines') > Len(lines) /\ lines'[Len(lines) + 1].child = line.child)
            <=> ( /\ line.child # <<>>
                  /\ Gt(Add(LineBase(line), R(children[i].flexBaseSize)), R(container)) ) )]_vars

\* C11: when the free space of a line is exactly 0 in the first pass of the
\* flex loop, that pass freezes every child that was unfrozen at its flex
\* base size, so the main sizes of the line add up to the container.
C11_ZeroFreeSpace ==
    [][(pc = "loop" /\ iters = 0 /\ Unfrozen # {}
          /\ freeSpace(children, CurLine.child) = Zero) =>
          /\ \A j \in Unfrozen :
                /\ children'[j].frozen
                /\ children'[j].mainSize = R(children[j].flexBaseSize)
          /\ LineTotal(CurLine)' = R(container)]_vars

\* C12: in a line resolved in shrinking mode with negative free space, every
\* child left unfrozen by the initial freeze pass ends with a main size of at
\* most its flex base size.
C12_ShrinkNeverEnlarges ==
    (pc = "setsize" /\ ~grow /\ Lt(initFreeSpace, Zero)) =>
        \A j \in Range(CurLine.child) :
            ~freezeInflexible(kids[j], FALSE) =>
                ~Gt(children[j].mainSize, R(children[j].flexBaseSize))

=============================================================================
